---- MODULE Spec2Model ----
(***************************************************************************)
(* Model of the research pipeline's orchestration core:                    *)
(*   src/application.py            research, process_research,             *)
(*                                 websocket_endpoint, job_status          *)
(*   src/backend/nodes/briefing.py Briefing.create_briefings,              *)
(*                                 process_briefing,                       *)
(*                                 generate_category_briefing              *)
(* One job is followed from its submission to the end of its task.  Every  *)
(* action is the code between two suspension points (awaits) of one        *)
(* coroutine.  Python values that may be None are records: None, Str(t).   *)
(* A text is a sequence of tokens, so that concatenation and strip() are   *)
(* computed.                                                               *)
(***************************************************************************)
EXTENDS Integers, Sequences, FiniteSets, TLC

\* ------------------------------------------------------------------ bounds
\* Observers (websocket clients) that may attach to the job, once each.
NumObservers == 2
\* In the whole-pipeline specification only the first MaxCurated categories
\* are given curated documents by the stages before the briefing stage.
MaxCurated == 2
\* The longest batch of documents given to one category in SpecSort.
MaxDocs == 3

\* --------------------------------------------------------- program constants
\* asyncio.Semaphore(2)
SemaphoreValue == 2
\* self.max_doc_length = 8000
MaxDocLength == 8000
\* `if total_length + len(doc_entry) < 120000`
BudgetLimit == 120000

\* ------------------------------------------------------------ Python values
None == [py |-> "None"]
Str(t) == [py |-> "str", s |-> t]
Num(n) == [py |-> "num", n |-> n]
EmptyDict == [py |-> "dict"]

\* a truth test that only asks for a value: `is not None`
Truthy_NotNone(v) == v # None

\* bool(v) of a nullable text or dict value
Truthy(v) == v # None /\ v # Str(<<>>) /\ v # EmptyDict

\* d.get(k, default) on a dict modelled as a function
Get(d, k, default) == IF k \in DOMAIN d THEN d[k] ELSE default

\* d.update(u): overwrite by key
Update(d, u) == u @@ d

\* str.strip() on a sequence of tokens, " " the whitespace token
RECURSIVE LStrip(_)
LStrip(t) == IF t # <<>> /\ Head(t) = " " THEN LStrip(Tail(t)) ELSE t

RECURSIVE RStrip(_)
RStrip(t) ==
    IF t # <<>> /\ t[Len(t)] = " " THEN RStrip(SubSeq(t, 1, Len(t) - 1)) ELSE t

Strip(t) == RStrip(LStrip(t))

\* ------------------------------------------------------------------ inputs
JobId == "job-1"
Company == <<"Acme">>
Observers == 1..NumObservers

\* categories, in the order of the dict in create_briefings
CategoryOrder == <<"financial", "news", "industry", "company">>
Categories == {CategoryOrder[i] : i \in 1..Len(CategoryOrder)}
DataField(c) == c \o "_data"
CuratedKey(c) == "curated_" \o DataField(c)
BriefingKey(c) == c \o "_briefing"

\* ------------------------------------------------------------ long texts
\* The title and the content of a document are texts whose length in
\* characters matters: a text is a sequence of runs, [s |-> name, n |-> length],
\* the run being the first n characters of the string called name.
Chars(s, n) == IF n = 0 THEN <<>> ELSE <<[s |-> s, n |-> n]>>

\* len(text)
RECURSIVE CharLen(_)
CharLen(t) == IF t = <<>> THEN 0 ELSE Head(t).n + CharLen(Tail(t))

\* text[:k]
RECURSIVE Take(_, _)
Take(t, k) ==
    IF k = 0 \/ t = <<>> THEN <<>>
    ELSE IF Head(t).n <= k
         THEN <<Head(t)>> \o Take(Tail(t), k - Head(t).n)
    ELSE <<[s |-> Head(t).s, n |-> k]>>

\* ---------------------------------------------------------------- documents
\* float(v) of a score value: a number, a numeric string, or an exception
FloatTable == (<<"0">> :> 0) @@ (<<"1">> :> 1) @@ (<<"2">> :> 2)

Float(v) ==
    IF v.py = "num" THEN [ok |-> TRUE, v |-> v.n]
    ELSE IF v.py = "str" /\ v.s \in DOMAIN FloatTable
         THEN [ok |-> TRUE, v |-> FloatTable[v.s]]
    ELSE IF v.py = "str"
         THEN [ok |-> FALSE,
               exc |-> <<"could not convert string to float: ">> \o v.s]
    ELSE [ok |-> FALSE,
          exc |-> <<"float() argument must be a string or a real number">>]

\* key=lambda x: float(x[1].get('evaluation', {}).get('overall_score', '0'))
ScoreKey(doc) ==
    Float(Get(Get(doc, "evaluation", <<>>), "overall_score", Str(<<"0">>)))

\* sorted(items, key=..., reverse=True) evaluates the key of every item and
\* raises the first exception a key raises
RECURSIVE SortRaises(_)
SortRaises(docs) ==
    IF docs = <<>> THEN [ok |-> TRUE]
    ELSE IF ~ScoreKey(Head(docs)).ok
         THEN [ok |-> FALSE, exc |-> ScoreKey(Head(docs)).exc]
    ELSE SortRaises(Tail(docs))

ScoredDoc == [title |-> Chars("T1", 2), content |-> Chars("c1", 2),
              evaluation |-> [overall_score |-> Num(1)]]
MalformedDoc == [title |-> Chars("T3", 2), content |-> Chars("c3", 2),
                 evaluation |-> [overall_score |-> Str(<<"N/A">>)]]

\* more documents: one that ties with ScoredDoc, two that tie with the score
\* as a number and as a numeric string, and one without evaluation
TiedDoc == [title |-> Chars("T2", 2), content |-> Chars("c2", 2),
            evaluation |-> [overall_score |-> Num(1)]]
TopDoc == [title |-> Chars("T4", 2), content |-> Chars("c4", 2),
           evaluation |-> [overall_score |-> Num(2)]]
TextScoredDoc == [title |-> Chars("T5", 2), content |-> Chars("c5", 2),
                  evaluation |-> [overall_score |-> Str(<<"2">>)]]
UnscoredDoc == [title |-> Chars("T6", 2), content |-> Chars("c6", 2)]

\* items = [(doc.get('url', f'doc_{i}'), doc) for i, doc in enumerate(docs)]
Items(docs) ==
    [i \in 1..Len(docs) |-> [url |-> <<"doc_", i - 1>>, doc |-> docs[i]]]

\* an item put into a list sorted by descending key, behind every item whose
\* key is not smaller
RECURSIVE InsertByScore(_, _)
InsertByScore(x, sorted) ==
    IF sorted = <<>> THEN <<x>>
    ELSE IF ScoreKey(Head(sorted).doc).v >= ScoreKey(x.doc).v
         THEN <<Head(sorted)>> \o InsertByScore(x, Tail(sorted))
    ELSE <<x>> \o sorted

\* a sort that sorts ascending and then reverses the list
RECURSIVE InsertAscending(_, _)
InsertAscending(x, sorted) ==
    IF sorted = <<>> THEN <<x>>
    ELSE IF ScoreKey(Head(sorted).doc).v <= ScoreKey(x.doc).v
         THEN <<Head(sorted)>> \o InsertAscending(x, Tail(sorted))
    ELSE <<x>> \o sorted

RECURSIVE SortedAscending(_)
SortedAscending(items) ==
    IF items = <<>> THEN <<>>
    ELSE InsertAscending(items[Len(items)],
                         SortedAscending(SubSeq(items, 1, Len(items) - 1)))

SortedItems_Reversed(items) ==
    [i \in 1..Len(items) |-> SortedAscending(items)[Len(items) + 1 - i]]

\* sorted(items, key=..., reverse=True), when no key raises: descending, and
\* items with equal keys keep their order (reverse=True keeps the sort stable)
RECURSIVE SortedItems(_)
SortedItems(items) ==
    IF items = <<>> THEN <<>>
    ELSE InsertByScore(items[Len(items)],
                       SortedItems(SubSeq(items, 1, Len(items) - 1)))

\* content = doc.get('raw_content') or doc.get('content', '')
ContentOf(doc) ==
    IF "raw_content" \in DOMAIN doc /\ doc.raw_content # <<>>
    THEN doc.raw_content
    ELSE Get(doc, "content", <<>>)

\* "... [content truncated]"
TruncationMarker == Chars("... [content truncated]", 23)

\* the content as it enters the prompt: cut to max_doc_length characters and
\* followed by the marker when it is longer
Truncated(content) ==
    IF CharLen(content) > MaxDocLength
    THEN Take(content, MaxDocLength) \o TruncationMarker
    ELSE content

\* doc_entry = f"Title: {title}\n\nContent: {content}"
DocEntry(doc) ==
    Chars("Title: ", 7) \o Get(doc, "title", <<>>)
        \o Chars("\n\nContent: ", 11) \o Truncated(ContentOf(doc))

\* a loop that skips a document that does not fit and goes on to the next
RECURSIVE DocTexts_Continue(_, _, _)
DocTexts_Continue(sorted, doc_texts, total_length) ==
    IF sorted = <<>> THEN doc_texts
    ELSE IF total_length + CharLen(DocEntry(Head(sorted).doc)) < BudgetLimit
         THEN DocTexts_Continue(
                  Tail(sorted), Append(doc_texts, DocEntry(Head(sorted).doc)),
                  total_length + CharLen(DocEntry(Head(sorted).doc)))
    ELSE DocTexts_Continue(Tail(sorted), doc_texts, total_length)

\* the loop over sorted_items: an entry is appended while the total stays
\* under the budget, and the first entry that does not fit ends the loop
RECURSIVE DocTexts(_, _, _)
DocTexts(sorted, doc_texts, total_length) ==
    IF sorted = <<>> THEN doc_texts
    ELSE IF total_length + CharLen(DocEntry(Head(sorted).doc)) < BudgetLimit
         THEN DocTexts(Tail(sorted),
                       Append(doc_texts, DocEntry(Head(sorted).doc)),
                       total_length + CharLen(DocEntry(Head(sorted).doc)))
    ELSE doc_texts

\* what generate_category_briefing works on after the sort, and the entries
\* it puts into the prompt
Considered(docs) ==
    [sorted_items |-> SortedItems(Items(docs)),
     doc_texts |-> DocTexts(SortedItems(Items(docs)), <<>>, 0)]

\* a create_briefings that has not made its semaphore nor its tasks
IdlePeer == [sem |-> 0, task |-> [c \in Categories |-> "none"]]

\* what the curation stage may leave under a curated_<field> key: nothing
\* (the key is not written), an empty collection, or a batch of documents
CuratedPool ==
    {[written |-> FALSE, docs |-> <<>>], [written |-> TRUE, docs |-> <<>>],
     [written |-> TRUE, docs |-> <<ScoredDoc>>],
     [written |-> TRUE, docs |-> <<MalformedDoc>>]}

\* ------------------------------------------------------------------- state
VARIABLES
    mongodb,     \* application.py: whether the persistence collaborator is set
    pc,          \* position of the process_research task
    exc,         \* str(e) of the exception process_research caught
    job_status,  \* application.py: the in-memory job table
    db,          \* what the persistence collaborator holds for the job
    events,      \* the StatusEvents sent for the job, in emission order
    obs,         \* the observers (websocket_endpoint handlers)
    state,       \* process_research: the accumulated workflow state
    gstate,      \* the ResearchState the stages share
    gpc,         \* position of Graph.run
    task,        \* create_briefings: position of each process_briefing task
    sem,         \* create_briefings: free slots of briefing_semaphore
    briefings,   \* create_briefings: the local dict briefings
    genOut,      \* what the generation service answered, per category
    prompt,      \* generate_category_briefing: the documents in the order
                 \* they are considered for the prompt, per category
    peer         \* a second job's create_briefings: its semaphore and tasks

vars == <<mongodb, pc, exc, job_status, db, events, obs, state, gstate, gpc,
          task, sem, briefings, genOut, prompt, peer>>

\* ------------------------------------------------------------------ events
Event(status, message, result, error) ==
    [job_id |-> JobId, status |-> status, message |-> message,
     result |-> result, error |-> error]

\* manager.send_status_update(job_id, ...): the event goes to every observer
\* connected under job_id at that moment
send_status_update(e) == events' = Append(events, e)

TerminalStatuses == {"completed", "failed"}

\* ------------------------------------------------------------------ job table
\* the default factory of job_status
DefaultEntry ==
    [status |-> "pending", result |-> None, error |-> None,
     company |-> None, report |-> None]

\* job_status[job_id]: a defaultdict lookup
JobEntry(js, j) == IF j \in DOMAIN js THEN js[j] ELSE DefaultEntry

OutObserver == [st |-> "out", at |-> "-", catchup |-> None]
GoneObserver == [st |-> "gone", at |-> "-", catchup |-> None]

Init ==
    /\ mongodb \in BOOLEAN
    /\ pc = "none"
    /\ exc = <<>>
    /\ job_status = <<>>
    /\ db = [job |-> None, report |-> None]
    /\ events = <<>>
    /\ obs = [o \in Observers |-> OutObserver]
    /\ state = <<>>
    /\ gstate = <<>>
    /\ gpc = "init"
    /\ task = [c \in Categories |-> "none"]
    /\ sem = 0
    /\ briefings = <<>>
    /\ genOut = [c \in Categories |-> None]
    /\ prompt = [c \in Categories |-> None]
    /\ peer = IdlePeer

\* ------------------------------------------------------- research (submit)
\* POST /research: a job_id is made and process_research is spawned
research ==
    /\ pc = "none"
    /\ pc' = "spawned"
    /\ UNCHANGED <<peer, prompt, mongodb, exc, job_status, db, events, obs, state, gstate,
                   gpc, task, sem, briefings, genOut>>

\* process_research up to `await asyncio.sleep(1)`
StartTask ==
    /\ pc = "spawned"
    /\ db' = IF mongodb
             THEN [db EXCEPT !.job = [status |-> "pending", error |-> None]]
             ELSE db
    /\ pc' = "sleep"
    /\ UNCHANGED <<peer, prompt, mongodb, exc, job_status, events, obs, state, gstate, gpc,
                   task, sem, briefings, genOut>>

\* process_research from the sleep to the first step of graph.run
BeginRun ==
    /\ pc = "sleep"
    /\ send_status_update(
           Event("processing", <<"Starting research">>, None, None))
    /\ gstate' = ("company" :> Str(Company))
    /\ gpc' = "curate"
    /\ pc' = "run"
    /\ UNCHANGED <<peer, prompt, mongodb, exc, job_status, db, obs, state, task, sem,
                   briefings, genOut>>

\* ------------------------------------------------------------- Graph.run
\* `async for s in graph.run(...): state.update(s)`: one yielded state
Yield(g) == Update(state, g)

CategoryOfKey(k) == CHOOSE c \in Categories : CuratedKey(c) = k

\* the curated inputs in which only the first n categories have a key
CuratedInputs(n) ==
    {cur \in [Categories -> CuratedPool] :
        \A i \in 1..Len(CategoryOrder) :
            i > n => ~cur[CategoryOrder[i]].written}

\* the state with the curated keys of an input written
WithCurated(g, cur) ==
    Update(g, [k \in {CuratedKey(c) : c \in {d \in Categories : cur[d].written}}
                 |-> cur[CategoryOfKey(k)].docs])

\* the stages before the briefing stage: they leave the curated documents
StageCurate ==
    /\ pc = "run" /\ gpc = "curate"
    /\ \E cur \in CuratedInputs(MaxCurated) :
          /\ gstate' = WithCurated(gstate, cur)
          /\ state' = Yield(gstate')
    /\ gpc' = "brief"
    /\ UNCHANGED <<peer, prompt, mongodb, pc, exc, job_status, db, events, obs, task, sem,
                   briefings, genOut>>

\* ------------------------------------------------------ create_briefings
\* create_briefings up to the await of its first status update
BriefingStart ==
    /\ pc = "run" /\ gpc = "brief"
    /\ send_status_update(
           Event("processing",
                 <<"Starting research briefings with enhanced MongoDB context">>,
                 [step |-> "Briefing"], None))
    /\ gpc' = "fanout"
    /\ UNCHANGED <<peer, prompt, mongodb, pc, exc, job_status, db, obs, state, gstate, task,
                   sem, briefings, genOut>>

\* curated_data = state.get(curated_key, {})
CuratedData(g, c) == Get(g, CuratedKey(c), <<>>)

\* a loop that makes a task for every category whose key is in the state
TaskCategories_Written(g) == {c \in Categories : CuratedKey(c) \in DOMAIN g}

\* the categories the loop makes a task for: `if curated_data`
TaskCategories(g) == {c \in Categories : CuratedData(g, c) # <<>>}

\* the loop's else branch: state[briefing_key] = "" for every other category
SkipEmpty(g) ==
    Update(g, [k \in {BriefingKey(c) : c \in Categories \ TaskCategories(g)}
                 |-> <<>>])

\* create_briefings from the loop over the categories to the await of
\* asyncio.gather, or to its return when there is no task
FanOut ==
    /\ pc = "run" /\ gpc = "fanout"
    /\ briefings' = <<>>
    /\ IF TaskCategories(gstate) = {}
       THEN /\ gstate' = Update(SkipEmpty(gstate), "briefings" :> <<>>)
            /\ state' = Yield(gstate')
            /\ gpc' = "edit"
            /\ UNCHANGED <<task, sem>>
       ELSE /\ gstate' = SkipEmpty(gstate)
            /\ sem' = SemaphoreValue
            /\ task' = [c \in Categories |->
                          IF c \in TaskCategories(gstate) THEN "waiting"
                          ELSE "none"]
            /\ gpc' = "gather"
            /\ UNCHANGED state
    /\ UNCHANGED <<peer, prompt, mongodb, pc, exc, job_status, db, events, obs, genOut>>

\* a process_briefing that does not wait for a free slot
Admit_Unbounded(c) ==
    /\ task[c] = "waiting"
    /\ sem' = sem - 1
    /\ send_status_update(
           Event("briefing_start", <<"Generating ", c, " briefing">>,
                 [step |-> "Briefing", category |-> c,
                  total_docs |-> Len(CuratedData(gstate, c))],
                 None))
    /\ task' = [task EXCEPT ![c] = "started"]
    /\ UNCHANGED <<peer, prompt, mongodb, pc, exc, job_status, db, obs, state, gstate, gpc,
                   briefings, genOut>>

\* process_briefing: `async with briefing_semaphore`, then
\* generate_category_briefing up to the await of its briefing_start update
Admit(c) ==
    /\ task[c] = "waiting"
    /\ sem > 0
    /\ sem' = sem - 1
    /\ send_status_update(
           Event("briefing_start", <<"Generating ", c, " briefing">>,
                 [step |-> "Briefing", category |-> c,
                  total_docs |-> Len(CuratedData(gstate, c))],
                 None))
    /\ task' = [task EXCEPT ![c] = "started"]
    /\ UNCHANGED <<peer, prompt, mongodb, pc, exc, job_status, db, obs, state, gstate, gpc,
                   briefings, genOut>>

\* what gemini_model.generate_content(prompt) may do: raise, or answer a text
GenOutcomes(c) ==
    {[raises |-> TRUE], [raises |-> FALSE, text |-> <<" ">>],
     [raises |-> FALSE, text |-> <<" ", c, " ">>]}

\* a content that is the answered text as it is, without strip()
Content_Unstripped(out) == IF out.raises THEN <<>> ELSE out.text

\* result['content'] of generate_category_briefing for an answer of the
\* generation service
Content(out) == IF out.raises THEN <<>> ELSE Strip(out.text)

\* a generate_category_briefing without its try/except: an exception of the
\* generation service ends the task
Generate_Uncaught(c) ==
    /\ task[c] = "started"
    /\ IF ~SortRaises(CuratedData(gstate, c)).ok
       THEN /\ task' = [task EXCEPT ![c] = "raised"]
            /\ sem' = sem + 1
            /\ UNCHANGED <<genOut, prompt, gstate, events>>
       ELSE \E out \in GenOutcomes(c) :
              /\ genOut' = [genOut EXCEPT ![c] = out]
              /\ prompt' = [prompt EXCEPT ![c] = Considered(CuratedData(gstate, c))]
              /\ IF out.raises
                 THEN /\ task' = [task EXCEPT ![c] = "raised"]
                      /\ sem' = sem + 1
                      /\ UNCHANGED <<gstate, events>>
                 ELSE IF Content(out) = <<>>
                 THEN /\ gstate' = Update(gstate, BriefingKey(c) :> <<>>)
                      /\ sem' = sem + 1
                      /\ task' = [task EXCEPT ![c] = "done"]
                      /\ UNCHANGED events
                 ELSE /\ send_status_update(
                             Event("briefing_complete",
                                   <<"Completed ", c, " briefing">>,
                                   [step |-> "Briefing", category |-> c], None))
                      /\ task' = [task EXCEPT ![c] = "completing"]
                      /\ UNCHANGED <<gstate, sem>>
    /\ UNCHANGED <<peer, mongodb, pc, exc, job_status, db, obs, state, gpc,
                   briefings>>

\* a process_briefing that acquires the semaphore without `async with`: a
\* task that ends by an exception keeps its slot
Generate_LeakOnRaise(c) ==
    /\ task[c] = "started"
    /\ IF ~SortRaises(CuratedData(gstate, c)).ok
       THEN /\ task' = [task EXCEPT ![c] = "raised"]
            /\ UNCHANGED <<sem, genOut, prompt, gstate, events>>
       ELSE \E out \in GenOutcomes(c) :
              /\ genOut' = [genOut EXCEPT ![c] = out]
              /\ prompt' = [prompt EXCEPT ![c] = Considered(CuratedData(gstate, c))]
              /\ IF Content(out) = <<>>
                 THEN /\ gstate' = Update(gstate, BriefingKey(c) :> <<>>)
                      /\ sem' = sem + 1
                      /\ task' = [task EXCEPT ![c] = "done"]
                      /\ UNCHANGED events
                 ELSE /\ send_status_update(
                             Event("briefing_complete",
                                   <<"Completed ", c, " briefing">>,
                                   [step |-> "Briefing", category |-> c], None))
                      /\ task' = [task EXCEPT ![c] = "completing"]
                      /\ UNCHANGED <<gstate, sem>>
    /\ UNCHANGED <<peer, mongodb, pc, exc, job_status, db, obs, state, gpc,
                   briefings>>

\* generate_category_briefing from the sort of the documents on: the sort may
\* raise (the task ends, the semaphore is released); otherwise the generation
\* service is called, and either the content is empty (process_briefing stores
\* "" and ends) or the task awaits its briefing_complete update
Generate(c) ==
    /\ task[c] = "started"
    /\ IF ~SortRaises(CuratedData(gstate, c)).ok
       THEN /\ task' = [task EXCEPT ![c] = "raised"]
            /\ sem' = sem + 1
            /\ UNCHANGED <<genOut, prompt, gstate, events>>
       ELSE \E out \in GenOutcomes(c) :
              /\ genOut' = [genOut EXCEPT ![c] = out]
              /\ prompt' = [prompt EXCEPT ![c] = Considered(CuratedData(gstate, c))]
              /\ IF Content(out) = <<>>
                 THEN /\ gstate' = Update(gstate, BriefingKey(c) :> <<>>)
                      /\ sem' = sem + 1
                      /\ task' = [task EXCEPT ![c] = "done"]
                      /\ UNCHANGED events
                 ELSE /\ send_status_update(
                             Event("briefing_complete",
                                   <<"Completed ", c, " briefing">>,
                                   [step |-> "Briefing", category |-> c], None))
                      /\ task' = [task EXCEPT ![c] = "completing"]
                      /\ UNCHANGED <<gstate, sem>>
    /\ UNCHANGED <<peer, mongodb, pc, exc, job_status, db, obs, state, gpc,
                   briefings>>

\* a process_briefing that stores the content under the category's key only
Complete_KeyOnly(c) ==
    /\ task[c] = "completing"
    /\ gstate' = Update(gstate, BriefingKey(c) :> Content(genOut[c]))
    /\ sem' = sem + 1
    /\ task' = [task EXCEPT ![c] = "done"]
    /\ UNCHANGED <<peer, prompt, mongodb, pc, exc, job_status, db, events, obs,
                   state, gpc, genOut, briefings>>

\* process_briefing after generate_category_briefing returned a content
Complete(c) ==
    /\ task[c] = "completing"
    /\ briefings' = Update(briefings, c :> Content(genOut[c]))
    /\ gstate' = Update(gstate, BriefingKey(c) :> Content(genOut[c]))
    /\ sem' = sem + 1
    /\ task' = [task EXCEPT ![c] = "done"]
    /\ UNCHANGED <<peer, prompt, mongodb, pc, exc, job_status, db, events, obs, state, gpc,
                   genOut>>

\* asyncio.gather returns once every task has returned
GatherReturn ==
    /\ pc = "run" /\ gpc = "gather"
    /\ \A c \in Categories : task[c] \in {"none", "done"}
    /\ gstate' = Update(gstate, "briefings" :> briefings)
    /\ state' = Yield(gstate')
    /\ gpc' = "edit"
    /\ UNCHANGED <<peer, prompt, mongodb, pc, exc, job_status, db, events, obs, task, sem,
                   briefings, genOut>>

\* str(e) of the exception a task that raised ended by
TaskException(c) ==
    IF ~SortRaises(CuratedData(gstate, c)).ok
    THEN SortRaises(CuratedData(gstate, c)).exc
    ELSE <<"generation failed">>

\* asyncio.gather raises the exception of a task that raised, and leaves the
\* other tasks running; the exception leaves create_briefings and graph.run and
\* is caught by process_research
GatherRaise ==
    /\ pc = "run" /\ gpc = "gather"
    /\ \E c \in Categories :
          /\ task[c] = "raised"
          /\ exc' = TaskException(c)
    /\ gpc' = "raised"
    /\ pc' = "except"
    /\ UNCHANGED <<peer, prompt, mongodb, job_status, db, events, obs, state, gstate, task,
                   sem, briefings, genOut>>

\* ------------------------------------------------------------ later stages
\* what the stages after the briefing stage may leave in the state: a report
\* at the top level, under editor, in both places, an empty one, none, an
\* error text; or the stage raises
EditOutcomes ==
    {[raises |-> TRUE],
     [raises |-> FALSE, upd |-> ("report" :> Str(<<"R1">>))],
     [raises |-> FALSE,
      upd |-> ("editor" :> [py |-> "dict", report |-> Str(<<"R2">>)])],
     [raises |-> FALSE,
      upd |-> ("report" :> Str(<<"R1">>)) @@
              ("editor" :> [py |-> "dict", report |-> Str(<<"R2">>)])],
     [raises |-> FALSE, upd |-> ("report" :> Str(<<>>))],
     [raises |-> FALSE, upd |-> <<>>],
     [raises |-> FALSE, upd |-> ("error" :> Str(<<"no briefings">>))]}

\* the same, and the states in which a key is present without a report: an
\* empty top-level report beside the editor's report, an editor output with an
\* empty report, an editor key holding None
ReportOutcomes ==
    EditOutcomes \cup
    {[raises |-> FALSE,
      upd |-> ("report" :> Str(<<>>)) @@
              ("editor" :> [py |-> "dict", report |-> Str(<<"R2">>)])],
     [raises |-> FALSE,
      upd |-> ("editor" :> [py |-> "dict", report |-> Str(<<>>)])],
     [raises |-> FALSE, upd |-> ("editor" :> None)]}

\* the last steps of graph.run for a set of outcomes of the later stages
StageEditWith(outcomes) ==
    /\ pc = "run" /\ gpc = "edit"
    /\ \E out \in outcomes :
          IF out.raises
          THEN /\ exc' = <<"editor failed">>
               /\ pc' = "except"
               /\ gpc' = "raised"
               /\ UNCHANGED <<gstate, state>>
          ELSE /\ gstate' = Update(gstate, out.upd)
               /\ state' = Yield(gstate')
               /\ gpc' = "end"
               /\ UNCHANGED <<pc, exc>>
    /\ UNCHANGED <<peer, prompt, mongodb, job_status, db, events, obs, task, sem, briefings,
                   genOut>>

StageEdit == StageEditWith(EditOutcomes)

\* ------------------------------------------------ process_research: the end
\* Python's `a or b`
Or(a, b) == IF Truthy(a) THEN a ELSE b

\* a lookup that asks the editor's output first
ReportContent_EditorFirst(st) ==
    Or(Get(Or(Get(st, "editor", None), EmptyDict), "report", None),
       Get(st, "report", None))

\* state.get('report') or (state.get('editor') or {}).get('report')
ReportContent(st) ==
    Or(Get(st, "report", None),
       Get(Or(Get(st, "editor", None), EmptyDict), "report", None))

\* error_message of the branch without a report
ErrorMessage(st) ==
    IF Truthy(Get(st, "error", None))
    THEN Str(<<"Error: ">> \o Get(st, "error", None).s)
    ELSE Str(<<"No report found">>)

\* a process_research that sends nothing when the run left no report
Finish_NoSoftFailure ==
    /\ pc = "run" /\ gpc = "end"
    /\ IF Truthy(ReportContent(state))
       THEN /\ job_status' =
                 Update(job_status,
                        JobId :> [JobEntry(job_status, JobId) EXCEPT
                                    !.status = "completed",
                                    !.report = ReportContent(state),
                                    !.company = Str(Company)])
            /\ db' = IF mongodb
                     THEN [job |-> [db.job EXCEPT !.status = "completed"],
                           report |-> ReportContent(state)]
                     ELSE db
            /\ send_status_update(
                   Event("completed", <<"Research completed successfully">>,
                         [report |-> ReportContent(state),
                          company |-> Str(Company)],
                         None))
       ELSE UNCHANGED <<job_status, db, events>>
    /\ pc' = "done"
    /\ UNCHANGED <<peer, prompt, mongodb, exc, obs, state, gstate, gpc, task, sem, briefings,
                   genOut>>

\* a process_research that writes the job table before it tests the report
Finish_RecordsFirst ==
    /\ pc = "run" /\ gpc = "end"
    /\ job_status' =
          Update(job_status,
                 JobId :> [JobEntry(job_status, JobId) EXCEPT
                             !.status = "completed",
                             !.report = ReportContent(state),
                             !.company = Str(Company)])
    /\ IF Truthy(ReportContent(state))
       THEN /\ db' = IF mongodb
                     THEN [job |-> [db.job EXCEPT !.status = "completed"],
                           report |-> ReportContent(state)]
                     ELSE db
            /\ send_status_update(
                   Event("completed", <<"Research completed successfully">>,
                         [report |-> ReportContent(state),
                          company |-> Str(Company)],
                         None))
       ELSE /\ send_status_update(
                   Event("failed",
                         <<"Research completed but no report was generated">>,
                         None, ErrorMessage(state)))
            /\ UNCHANGED db
    /\ pc' = "done"
    /\ UNCHANGED <<peer, prompt, mongodb, exc, obs, state, gstate, gpc, task, sem, briefings,
                   genOut>>

\* process_research after the last yielded state, to its end
Finish ==
    /\ pc = "run" /\ gpc = "end"
    /\ IF Truthy(ReportContent(state))
       THEN /\ job_status' =
                 Update(job_status,
                        JobId :> [JobEntry(job_status, JobId) EXCEPT
                                    !.status = "completed",
                                    !.report = ReportContent(state),
                                    !.company = Str(Company)])
            /\ db' = IF mongodb
                     THEN [job |-> [db.job EXCEPT !.status = "completed"],
                           report |-> ReportContent(state)]
                     ELSE db
            /\ send_status_update(
                   Event("completed", <<"Research completed successfully">>,
                         [report |-> ReportContent(state),
                          company |-> Str(Company)],
                         None))
       ELSE /\ send_status_update(
                   Event("failed",
                         <<"Research completed but no report was generated">>,
                         None, ErrorMessage(state)))
            /\ UNCHANGED <<job_status, db>>
    /\ pc' = "done"
    /\ UNCHANGED <<peer, prompt, mongodb, exc, obs, state, gstate, gpc, task, sem, briefings,
                   genOut>>

\* a handler that reports the failure without the text of the exception
HandleException_NoText ==
    /\ pc = "except"
    /\ send_status_update(Event("failed", <<"Research failed">>, None, None))
    /\ db' = IF mongodb
             THEN [db EXCEPT !.job = [status |-> "failed", error |-> None]]
             ELSE db
    /\ pc' = "done"
    /\ UNCHANGED <<peer, prompt, mongodb, exc, job_status, obs, state, gstate, gpc, task,
                   sem, briefings, genOut>>

\* process_research: the `except Exception as e` handler
HandleException ==
    /\ pc = "except"
    /\ send_status_update(
           Event("failed", <<"Research failed: ">> \o exc, None, Str(exc)))
    /\ db' = IF mongodb
             THEN [db EXCEPT !.job = [status |-> "failed", error |-> Str(exc)]]
             ELSE db
    /\ pc' = "done"
    /\ UNCHANGED <<peer, prompt, mongodb, exc, job_status, obs, state, gstate, gpc, task,
                   sem, briefings, genOut>>

\* ----------------------------------- process_research without persistence
\* `if mongodb: mongodb.f(...)` for a persistence flag m: the call is made only
\* when the collaborator is set, and a call that is made returns
PersistenceCall_Unguarded(m) == [made |-> TRUE, raises |-> ~m]

PersistenceCall(m) == [made |-> m, raises |-> FALSE]

\* str(e) of a method call on None
NoneTypeError == <<"'NoneType' object has no attribute">>

\* the step process_research takes next, as what it leaves outside the
\* persistence collaborator (its position, the exception it caught, the job
\* table and the events sent) when the module's mongodb is set (m) or None
ProcessStep(m) ==
    CASE pc = "spawned" ->
           IF PersistenceCall(m).raises
           THEN [pc |-> "except", exc |-> NoneTypeError,
                 job_status |-> job_status, events |-> events]
           ELSE [pc |-> "sleep", exc |-> exc,
                 job_status |-> job_status, events |-> events]
      [] pc = "sleep" ->
           [pc |-> "run", exc |-> exc, job_status |-> job_status,
            events |-> Append(events, Event("processing",
                                            <<"Starting research">>,
                                            None, None))]
      [] pc = "run" /\ Truthy(ReportContent(state)) ->
           IF PersistenceCall(m).raises
           THEN [pc |-> "except", exc |-> NoneTypeError,
                 job_status |->
                     Update(job_status,
                            JobId :> [JobEntry(job_status, JobId) EXCEPT
                                        !.status = "completed",
                                        !.report = ReportContent(state),
                                        !.company = Str(Company)]),
                 events |-> events]
           ELSE [pc |-> "done", exc |-> exc,
                 job_status |->
                     Update(job_status,
                            JobId :> [JobEntry(job_status, JobId) EXCEPT
                                        !.status = "completed",
                                        !.report = ReportContent(state),
                                        !.company = Str(Company)]),
                 events |->
                     Append(events,
                            Event("completed",
                                  <<"Research completed successfully">>,
                                  [report |-> ReportContent(state),
                                   company |-> Str(Company)],
                                  None))]
      [] pc = "run" /\ ~Truthy(ReportContent(state)) ->
           [pc |-> "done", exc |-> exc, job_status |-> job_status,
            events |->
                Append(events,
                       Event("failed",
                             <<"Research completed but no report was generated">>,
                             None, ErrorMessage(state)))]
      [] pc = "except" ->
           [pc |-> "done", exc |-> exc, job_status |-> job_status,
            events |->
                Append(events,
                       Event("failed", <<"Research failed: ">> \o exc, None,
                             Str(exc)))]

\* ------------------------------------------------------ websocket_endpoint
\* when the observer attached: before any event, after the task ended, or
\* in between
Phase == IF events = <<>> THEN "start" ELSE IF pc = "done" THEN "end" ELSE "mid"

\* the catch-up event built from the job table
CatchUp(js) ==
    Event(js[JobId].status, <<"Connected to status stream">>,
          js[JobId].result, js[JobId].error)

\* websocket_endpoint up to its receive loop: the observer is registered, and
\* if the job is in job_status its status is sent under the job_id
Connect(o) ==
    /\ pc # "none"
    /\ obs[o].st = "out"
    /\ \A o2 \in Observers : o2 < o => obs[o2].st # "out"
    /\ IF JobId \in DOMAIN job_status
       THEN /\ send_status_update(CatchUp(job_status))
            /\ obs' = [obs EXCEPT ![o] = [st |-> "in", at |-> Phase,
                                          catchup |-> CatchUp(job_status)]]
       ELSE /\ obs' = [obs EXCEPT ![o] = [st |-> "in", at |-> Phase,
                                          catchup |-> None]]
            /\ UNCHANGED events
    /\ UNCHANGED <<peer, prompt, mongodb, pc, exc, job_status, db, state, gstate, gpc, task,
                   sem, briefings, genOut>>

\* ------------------------------------------------ GET /research/{id}/report
\* the job ids a request can name: the job's and one never submitted
LookupIds == {JobId, "job-0"}

\* get_research_report when mongodb is None: the report of the job's entry when
\* the entry exists and its report is truthy, otherwise 404
get_research_report(js, j) ==
    IF j \in DOMAIN js /\ Truthy(Get(js[j], "report", None))
    THEN [code |-> 200, body |-> [report |-> js[j].report]]
    ELSE [code |-> 404, body |-> [detail |-> <<"Report not found">>]]

\* a disconnect that cancels the job's task
Disconnect_Cancels(o) ==
    /\ obs[o].st = "in"
    /\ obs' = [obs EXCEPT ![o] = GoneObserver]
    /\ pc' = "done"
    /\ UNCHANGED <<peer, prompt, mongodb, exc, job_status, db, events, state,
                   gstate, gpc, task, sem, briefings, genOut>>

\* WebSocketDisconnect: manager.disconnect(websocket, job_id)
Disconnect(o) ==
    /\ obs[o].st = "in"
    /\ obs' = [obs EXCEPT ![o] = GoneObserver]
    /\ UNCHANGED <<peer, prompt, mongodb, pc, exc, job_status, db, events, state, gstate,
                   gpc, task, sem, briefings, genOut>>

\* ----------------------------------------------------------- specification
Next ==
    \/ research
    \/ StartTask
    \/ BeginRun
    \/ StageCurate
    \/ BriefingStart
    \/ FanOut
    \/ \E c \in Categories : Admit(c)
    \/ \E c \in Categories : Generate(c)
    \/ \E c \in Categories : Complete(c)
    \/ GatherReturn
    \/ GatherRaise
    \/ StageEdit
    \/ Finish
    \/ HandleException
    \/ \E o \in Observers : Connect(o)
    \/ \E o \in Observers : Disconnect(o)

Spec == Init /\ [][Next]_vars

\* ------------------------------------------------ collaborators that raise
\* process_research when a persistence call raises after job_status was set
\* to completed: update_job (nothing stored) or store_report (the status
\* stored); the exception is caught by the handler
FinishPersistenceRaises ==
    /\ pc = "run" /\ gpc = "end"
    /\ mongodb
    /\ Truthy(ReportContent(state))
    /\ job_status' =
          Update(job_status,
                 JobId :> [JobEntry(job_status, JobId) EXCEPT
                             !.status = "completed",
                             !.report = ReportContent(state),
                             !.company = Str(Company)])
    /\ \/ /\ exc' = <<"update_job failed">>
          /\ UNCHANGED db
       \/ /\ exc' = <<"store_report failed">>
          /\ db' = [db EXCEPT !.job = [db.job EXCEPT !.status = "completed"]]
    /\ pc' = "except"
    /\ UNCHANGED <<peer, prompt, mongodb, events, obs, state, gstate, gpc, task, sem,
                   briefings, genOut>>

\* process_research when the delivery of its terminal event raises: nothing
\* is delivered, and the exception is caught by the handler
FinishSendRaises ==
    /\ pc = "run" /\ gpc = "end"
    /\ IF Truthy(ReportContent(state))
       THEN /\ job_status' =
                 Update(job_status,
                        JobId :> [JobEntry(job_status, JobId) EXCEPT
                                    !.status = "completed",
                                    !.report = ReportContent(state),
                                    !.company = Str(Company)])
            /\ db' = IF mongodb
                     THEN [job |-> [db.job EXCEPT !.status = "completed"],
                           report |-> ReportContent(state)]
                     ELSE db
       ELSE UNCHANGED <<job_status, db>>
    /\ exc' = <<"send failed">>
    /\ pc' = "except"
    /\ UNCHANGED <<peer, prompt, mongodb, events, obs, state, gstate, gpc, task, sem,
                   briefings, genOut>>

NextFaulty ==
    \/ Next
    \/ FinishPersistenceRaises
    \/ FinishSendRaises

SpecFaulty == Init /\ [][NextFaulty]_vars

\* ------------------------------------------------------ the job under fair
\* scheduling, collaborators raising included
\* process_research when mongodb.create_job raises: the exception is raised
\* inside the try, before the run, and is caught by the handler
StartTaskRaises ==
    /\ pc = "spawned"
    /\ mongodb
    /\ exc' = <<"create_job failed">>
    /\ pc' = "except"
    /\ UNCHANGED <<peer, prompt, mongodb, job_status, db, events, obs, state, gstate, gpc,
                   task, sem, briefings, genOut>>

\* the steps of the process_research task, of graph.run and of the fan-out
\* tasks: the event loop runs a coroutine that is ready, and a stage or a
\* generation call returns or raises
JobStep ==
    \/ StartTask
    \/ BeginRun
    \/ StageCurate
    \/ BriefingStart
    \/ FanOut
    \/ \E c \in Categories : Admit(c)
    \/ \E c \in Categories : Generate(c)
    \/ \E c \in Categories : Complete(c)
    \/ GatherReturn
    \/ GatherRaise
    \/ StageEdit
    \/ Finish
    \/ HandleException

\* the job and its collaborators raising (the steps of an observer leave the
\* job's variables as they are and are left out)
NextLive ==
    \/ research
    \/ JobStep
    \/ StartTaskRaises
    \/ FinishPersistenceRaises
    \/ FinishSendRaises

SpecLive == Init /\ [][NextLive]_vars /\ WF_vars(JobStep)

\* ------------------------------------------- the briefing stage on its own
\* a run of create_briefings from the state in which the stage is entered,
\* for every curated input of the four categories
InitBriefing ==
    /\ mongodb = FALSE
    /\ pc = "run"
    /\ exc = <<>>
    /\ job_status = <<>>
    /\ db = [job |-> None, report |-> None]
    /\ events = <<Event("processing", <<"Starting research">>, None, None)>>
    /\ obs = [o \in Observers |-> OutObserver]
    /\ \E cur \in CuratedInputs(Len(CategoryOrder)) :
          /\ gstate = WithCurated("company" :> Str(Company), cur)
          /\ state = gstate
    /\ gpc = "brief"
    /\ task = [c \in Categories |-> "none"]
    /\ sem = 0
    /\ briefings = <<>>
    /\ genOut = [c \in Categories |-> None]
    /\ prompt = [c \in Categories |-> None]
    /\ peer = IdlePeer

NextBriefing ==
    \/ BriefingStart
    \/ FanOut
    \/ \E c \in Categories : Admit(c)
    \/ \E c \in Categories : Generate(c)
    \/ \E c \in Categories : Complete(c)
    \/ GatherReturn
    \/ GatherRaise

SpecBriefing == InitBriefing /\ [][NextBriefing]_vars

\* the briefing stage under fair scheduling: the event loop runs a task that
\* is ready, asyncio.Semaphore wakes a waiter when a slot is released, and a
\* generation call returns or raises
SpecBriefingLive ==
    InitBriefing /\ [][NextBriefing]_vars /\ WF_vars(NextBriefing)

\* ------------------------------- the briefing stage when a delivery raises
\* generate_category_briefing when the generation answered a text that is not
\* empty and the await of the briefing_complete update raises: the await is
\* inside the try, the handler returns the content '', and process_briefing
\* stores "" and ends
GenerateSendRaises(c) ==
    /\ task[c] = "started"
    /\ SortRaises(CuratedData(gstate, c)).ok
    /\ \E out \in GenOutcomes(c) :
          /\ Content(out) # <<>>
          /\ genOut' = [genOut EXCEPT ![c] = out]
    /\ prompt' = [prompt EXCEPT ![c] = Considered(CuratedData(gstate, c))]
    /\ gstate' = Update(gstate, BriefingKey(c) :> <<>>)
    /\ sem' = sem + 1
    /\ task' = [task EXCEPT ![c] = "done"]
    /\ UNCHANGED <<peer, mongodb, pc, exc, job_status, db, events, obs, state,
                   gpc, briefings>>

NextBriefingFaulty ==
    \/ NextBriefing
    \/ \E c \in Categories : GenerateSendRaises(c)

SpecBriefingFaulty == InitBriefing /\ [][NextBriefingFaulty]_vars

\* ------------------------------------- the briefing of one batch of documents
\* the documents a batch is drawn from
SortPool ==
    {ScoredDoc, TiedDoc, TopDoc, TextScoredDoc, UnscoredDoc, MalformedDoc}

\* the batches of at most n documents, in every order and with repetitions
Batches(n) == UNION {[1..k -> SortPool] : k \in 0..n}

\* a run of create_briefings in which the financial category is given a batch
InitSort ==
    /\ mongodb = FALSE
    /\ pc = "run"
    /\ exc = <<>>
    /\ job_status = <<>>
    /\ db = [job |-> None, report |-> None]
    /\ events = <<Event("processing", <<"Starting research">>, None, None)>>
    /\ obs = [o \in Observers |-> OutObserver]
    /\ \E batch \in Batches(MaxDocs) :
          /\ gstate = ("company" :> Str(Company))
                          @@ (CuratedKey("financial") :> batch)
          /\ state = gstate
    /\ gpc = "brief"
    /\ task = [c \in Categories |-> "none"]
    /\ sem = 0
    /\ briefings = <<>>
    /\ genOut = [c \in Categories |-> None]
    /\ prompt = [c \in Categories |-> None]
    /\ peer = IdlePeer

SpecSort == InitSort /\ [][NextBriefing]_vars

\* ------------------------------------------- two jobs in the briefing stage
\* The briefing stage of a second job, submitted by another POST /research,
\* whose four categories all have documents.  Its events go to its own job_id
\* and its state is its own; what it shares with the first job is the event
\* loop.  briefing_semaphore is a local variable of create_briefings.
PeerFanOut ==
    /\ peer = IdlePeer
    /\ peer' = [sem |-> SemaphoreValue,
                task |-> [c \in Categories |-> "waiting"]]
    /\ UNCHANGED <<mongodb, pc, exc, job_status, db, events, obs, state,
                   gstate, gpc, task, sem, briefings, genOut, prompt>>

\* process_briefing of the second job: `async with briefing_semaphore`, up to
\* the await of the briefing_start update
PeerAdmit(c) ==
    /\ peer.task[c] = "waiting"
    /\ peer.sem > 0
    /\ peer' = [sem |-> peer.sem - 1,
                task |-> [peer.task EXCEPT ![c] = "started"]]
    /\ UNCHANGED <<mongodb, pc, exc, job_status, db, events, obs, state,
                   gstate, gpc, task, sem, briefings, genOut, prompt>>

\* generate_category_briefing of the second job from the sort on: an empty
\* content ends the task, otherwise it awaits its briefing_complete update
PeerGenerate(c) ==
    /\ peer.task[c] = "started"
    /\ \E out \in GenOutcomes(c) :
          IF Content(out) = <<>>
          THEN peer' = [sem |-> peer.sem + 1,
                        task |-> [peer.task EXCEPT ![c] = "done"]]
          ELSE peer' = [peer EXCEPT !.task[c] = "completing"]
    /\ UNCHANGED <<mongodb, pc, exc, job_status, db, events, obs, state,
                   gstate, gpc, task, sem, briefings, genOut, prompt>>

\* process_briefing of the second job after a content was returned
PeerComplete(c) ==
    /\ peer.task[c] = "completing"
    /\ peer' = [sem |-> peer.sem + 1,
                task |-> [peer.task EXCEPT ![c] = "done"]]
    /\ UNCHANGED <<mongodb, pc, exc, job_status, db, events, obs, state,
                   gstate, gpc, task, sem, briefings, genOut, prompt>>

InitTwoJobs ==
    /\ mongodb = FALSE
    /\ pc = "run"
    /\ exc = <<>>
    /\ job_status = <<>>
    /\ db = [job |-> None, report |-> None]
    /\ events = <<Event("processing", <<"Starting research">>, None, None)>>
    /\ obs = [o \in Observers |-> OutObserver]
    /\ \E cur \in CuratedInputs(MaxCurated) :
          /\ gstate = WithCurated("company" :> Str(Company), cur)
          /\ state = gstate
    /\ gpc = "brief"
    /\ task = [c \in Categories |-> "none"]
    /\ sem = 0
    /\ briefings = <<>>
    /\ genOut = [c \in Categories |-> None]
    /\ prompt = [c \in Categories |-> None]
    /\ peer = IdlePeer

NextTwoJobs ==
    \/ NextBriefing
    \/ PeerFanOut
    \/ \E c \in Categories : PeerAdmit(c)
    \/ \E c \in Categories : PeerGenerate(c)
    \/ \E c \in Categories : PeerComplete(c)

SpecTwoJobs == InitTwoJobs /\ [][NextTwoJobs]_vars

\* ------------------------------------ the prompt of one batch of documents
\* documents whose lengths matter: a short one; one whose content is longer
\* than max_doc_length; one with a raw_content of exactly max_doc_length and a
\* content; one whose title nearly fills the budget; one that with it reaches
\* the budget exactly, and one that stays one character under it
BriefDoc == [title |-> Chars("T7", 2), content |-> Chars("c7", 2)]
LongDoc == [title |-> Chars("T8", 2), content |-> Chars("c8", 9000),
            evaluation |-> [overall_score |-> Num(1)]]
RawDoc == [title |-> Chars("T9", 2), content |-> Chars("c9", 2),
           raw_content |-> Chars("r9", 8000),
           evaluation |-> [overall_score |-> Num(1)]]
HugeTitleDoc == [title |-> Chars("T10", 119000), content |-> Chars("c10", 2),
                 evaluation |-> [overall_score |-> Num(2)]]
ExactDoc == [title |-> Chars("T11", 960), content |-> Chars("c11", 2),
             evaluation |-> [overall_score |-> Num(1)]]
NearDoc == [title |-> Chars("T12", 959), content |-> Chars("c12", 2),
            evaluation |-> [overall_score |-> Num(1)]]

PromptPool == {BriefDoc, LongDoc, RawDoc, HugeTitleDoc, ExactDoc, NearDoc}

\* a run of create_briefings in which the financial category is given a batch
\* of at most MaxDocs of these documents
InitPrompt ==
    /\ mongodb = FALSE
    /\ pc = "run"
    /\ exc = <<>>
    /\ job_status = <<>>
    /\ db = [job |-> None, report |-> None]
    /\ events = <<Event("processing", <<"Starting research">>, None, None)>>
    /\ obs = [o \in Observers |-> OutObserver]
    /\ \E batch \in UNION {[1..k -> PromptPool] : k \in 0..MaxDocs} :
          /\ gstate = ("company" :> Str(Company))
                          @@ (CuratedKey("financial") :> batch)
          /\ state = gstate
    /\ gpc = "brief"
    /\ task = [c \in Categories |-> "none"]
    /\ sem = 0
    /\ briefings = <<>>
    /\ genOut = [c \in Categories |-> None]
    /\ prompt = [c \in Categories |-> None]
    /\ peer = IdlePeer

\* no score of these documents makes the sort raise
NextPrompt ==
    \/ BriefingStart
    \/ FanOut
    \/ \E c \in Categories : Admit(c)
    \/ \E c \in Categories : Generate(c)
    \/ \E c \in Categories : Complete(c)
    \/ GatherReturn

SpecPrompt == InitPrompt /\ [][NextPrompt]_vars

\* ------------------------------------------ the end of the run on its own
\* process_research from the briefing stage of a run whose curation left no
\* documents, for every final state the later stages may leave
InitReport ==
    /\ mongodb \in BOOLEAN
    /\ pc = "run"
    /\ exc = <<>>
    /\ job_status = <<>>
    /\ db = [job |-> IF mongodb THEN [status |-> "pending", error |-> None]
                     ELSE None,
             report |-> None]
    /\ events = <<Event("processing", <<"Starting research">>, None, None)>>
    /\ obs = [o \in Observers |-> OutObserver]
    /\ gstate = ("company" :> Str(Company))
    /\ state = gstate
    /\ gpc = "brief"
    /\ task = [c \in Categories |-> "none"]
    /\ sem = 0
    /\ briefings = <<>>
    /\ genOut = [c \in Categories |-> None]
    /\ prompt = [c \in Categories |-> None]
    /\ peer = IdlePeer

StageReport == StageEditWith(ReportOutcomes)

NextReport ==
    \/ BriefingStart
    \/ FanOut
    \/ StageReport
    \/ Finish
    \/ HandleException
    \/ \E o \in Observers : Connect(o)
    \/ \E o \in Observers : Disconnect(o)

SpecReport == InitReport /\ [][NextReport]_vars

\* ------------------------------------- the generation call, step by step
\* `response = self.gemini_model.generate_content(prompt)` is a plain call, not
\* an await: from the call to its return the task keeps the thread of the
\* event loop, and no other coroutine of the process runs.  Generate(c) is the
\* call and its return in one step; here the call is entered and returns in
\* two steps, with the event loop held in between.

\* no task is inside generate_content
Unblocked == \A c \in Categories : task[c] # "generating"

\* generate_category_briefing from the sort to the generation call: the sort
\* may raise and end the task; otherwise the call is entered
GenerateCall(c) ==
    /\ Unblocked
    /\ task[c] = "started"
    /\ IF ~SortRaises(CuratedData(gstate, c)).ok
       THEN /\ task' = [task EXCEPT ![c] = "raised"]
            /\ sem' = sem + 1
            /\ UNCHANGED prompt
       ELSE /\ task' = [task EXCEPT ![c] = "generating"]
            /\ prompt' = [prompt EXCEPT ![c] = Considered(CuratedData(gstate, c))]
            /\ UNCHANGED sem
    /\ UNCHANGED <<peer, mongodb, pc, exc, job_status, db, events, obs, state,
                   gstate, gpc, briefings, genOut>>

\* the generation call returns or raises, and generate_category_briefing goes
\* on to its next await or to its return
GenerateReturn(c) ==
    /\ task[c] = "generating"
    /\ \E out \in GenOutcomes(c) :
          /\ genOut' = [genOut EXCEPT ![c] = out]
          /\ IF Content(out) = <<>>
             THEN /\ gstate' = Update(gstate, BriefingKey(c) :> <<>>)
                  /\ sem' = sem + 1
                  /\ task' = [task EXCEPT ![c] = "done"]
                  /\ UNCHANGED events
             ELSE /\ send_status_update(
                         Event("briefing_complete",
                               <<"Completed ", c, " briefing">>,
                               [step |-> "Briefing", category |-> c], None))
                  /\ task' = [task EXCEPT ![c] = "completing"]
                  /\ UNCHANGED <<gstate, sem>>
    /\ UNCHANGED <<peer, prompt, mongodb, pc, exc, job_status, db, obs, state,
                   gpc, briefings>>

\* the steps of the other coroutines of the stage run
OtherStep ==
    \/ BriefingStart
    \/ FanOut
    \/ \E c \in Categories : Admit(c)
    \/ \E c \in Categories : Complete(c)
    \/ GatherReturn
    \/ GatherRaise

\* the event loop runs another coroutine only when no call holds its thread
RunOther == Unblocked /\ OtherStep

NextBlocking ==
    \/ \E c \in Categories : GenerateCall(c)
    \/ \E c \in Categories : GenerateReturn(c)
    \/ RunOther

SpecBlocking == InitBriefing /\ [][NextBlocking]_vars

\* =================================================================== claims
EventIndices == 1..Len(events)
SentWith(status) == {i \in EventIndices : events[i].status = status}
TerminalEvents == {i \in EventIndices : events[i].status \in TerminalStatuses}

\* an observer that attached before the first event and is still attached:
\* it has received every event of the log
WholeRun(o) == obs[o].st = "in" /\ obs[o].at = "start"

\* an observer that attached after process_research had ended
LateObserver(o) == obs[o].st = "in" /\ obs[o].at = "end"

\* C1 (as claimed): an observer connected for the whole run receives statuses
\* that form a subsequence of pending, processing, (stage events)*, terminal:
\* pending only first, a terminal status only last, and, once the task has
\* ended, exactly one terminal status, with nothing after it.
C1_Original ==
    \A o \in Observers :
        WholeRun(o) =>
            /\ \A i \in EventIndices :
                  /\ events[i].status \in
                        {"pending", "processing", "briefing_start",
                         "briefing_complete", "completed", "failed"}
                  /\ events[i].status = "pending" => i = 1
                  /\ events[i].status \in TerminalStatuses => i = Len(events)
            /\ pc = "done" => Cardinality(TerminalEvents) = 1

\* the terminal statuses recorded in job_status, stored by update_job or sent
RecordedTerminal ==
    ({events[i].status : i \in EventIndices}
        \cup {job_status[j].status : j \in DOMAIN job_status}
        \cup (IF db.job = None THEN {} ELSE {db.job.status}))
    \cap TerminalStatuses

\* C2 (as claimed): in every execution of process_research, also when a
\* persistence call or a delivery raises, one terminal status is reached, and
\* once a terminal status is recorded or sent no different status is recorded
\* or sent afterwards.
C2_Original ==
    /\ Cardinality(RecordedTerminal) <= 1
    /\ \A i, j \in EventIndices :
          (i < j /\ events[i].status \in TerminalStatuses)
              => events[j].status = events[i].status
    /\ pc = "done" => RecordedTerminal # {}

\* the terminal event process_research sent, if any
SupervisorTerminal ==
    {i \in TerminalEvents :
        events[i].message # <<"Connected to status stream">>}

\* C3 (as claimed): an observer attaching after the job reached its terminal
\* state (completed or failed) receives a catch-up event whose status, result
\* and error are those recorded in job_status, which are those of the terminal
\* event that was sent.
C3_Original ==
    \A o \in Observers :
        LateObserver(o) =>
            /\ obs[o].catchup # None
            /\ JobId \in DOMAIN job_status
            /\ obs[o].catchup.status = job_status[JobId].status
            /\ obs[o].catchup.result = job_status[JobId].result
            /\ obs[o].catchup.error = job_status[JobId].error
            /\ \E i \in SupervisorTerminal :
                  /\ events[i].status = obs[o].catchup.status
                  /\ events[i].result = obs[o].catchup.result
                  /\ events[i].error = obs[o].catchup.error

\* C4 (as claimed): from the submission on, job_status holds an entry for the
\* job, with status pending until the engine starts and processing while the
\* stages run.
C4_Original ==
    pc # "none" =>
        /\ JobId \in DOMAIN job_status
        /\ pc \in {"spawned", "sleep"} => job_status[JobId].status = "pending"
        /\ pc = "run" => job_status[JobId].status = "processing"

\* the generation call of a category raised / answered a text that is not
\* empty once stripped
GenFailed(c) == genOut[c] # None /\ genOut[c].raises
GenSucceeded(c) ==
    genOut[c] # None /\ ~genOut[c].raises /\ Strip(genOut[c].text) # <<>>

\* the tasks inside `async with briefing_semaphore`
Admitted == {c \in Categories : task[c] \in {"started", "completing"}}

\* the stage has returned to graph.run, which has yielded its state
StageReturned == gpc = "edit"

\* C5: when the generation call of category a raises and that of category b
\* answers a text, a's task ends normally with a_briefing = "" and without an
\* entry in briefings, b's task is not cancelled and stores b's text under
\* b_briefing and in briefings, and the stage does not raise because of a: it
\* raises only when the sort of some batch raised; a stage that returned has
\* yielded this state.  This holds for every order of admission.
C5_FailureIsolated ==
    \A a, b \in Categories :
        (a # b /\ GenFailed(a) /\ GenSucceeded(b)) =>
            /\ task[a] = "done"
            /\ gstate[BriefingKey(a)] = <<>>
            /\ a \notin DOMAIN briefings
            /\ task[b] \in {"completing", "done"}
            /\ task[b] = "done" =>
                  /\ gstate[BriefingKey(b)] = Strip(genOut[b].text)
                  /\ briefings[b] = Strip(genOut[b].text)
            /\ gpc = "raised" =>
                  \E c \in Categories :
                      /\ task[c] = "raised"
                      /\ ~SortRaises(CuratedData(gstate, c)).ok
            /\ StageReturned =>
                  /\ state[BriefingKey(a)] = <<>>
                  /\ state[BriefingKey(b)] = Strip(genOut[b].text)
                  /\ a \notin DOMAIN state["briefings"]
                  /\ state["briefings"][b] = Strip(genOut[b].text)

\* C5 witness: the stage has returned after one generation call raised and
\* another answered a text
C5_Witness ==
    /\ StageReturned
    /\ \E a, b \in Categories : a # b /\ GenFailed(a) /\ GenSucceeded(b)

\* C6: at most 2 tasks are inside the section guarded by briefing_semaphore,
\* in every reachable state of a stage run.
C6_AtMostTwoAdmitted ==
    /\ Cardinality(Admitted) <= SemaphoreValue
    /\ sem >= 0

\* C6 witness: two tasks hold the semaphore while two more wait for it
C6_Witness ==
    /\ Cardinality(Admitted) = SemaphoreValue
    /\ Cardinality({c \in Categories : task[c] = "waiting"}) = 2

\* C7 (as claimed): a document whose score is missing or not numeric never
\* makes the operation raise: no category task and no briefing stage ends by
\* an exception.
C7_Original ==
    /\ gpc # "raised"
    /\ \A c \in Categories : task[c] # "raised"

\* the fan-out loop of create_briefings has run
LoopDone == gpc \in {"gather", "edit", "raised"}

\* the events of the briefing of a category
BriefingEvents(c) ==
    {i \in EventIndices :
        /\ events[i].status \in {"briefing_start", "briefing_complete"}
        /\ events[i].result.category = c}

\* C8: for a category whose curated key is absent or empty, no task is made,
\* the generation service is never called and no briefing_start is sent, and
\* from the loop on its briefing key is ""; the stage's returned state has it
\* "" too.  Every category with documents gets its task.
C8_EmptySkipped ==
    \A c \in Categories :
        IF CuratedData(gstate, c) = <<>>
        THEN /\ task[c] = "none"
             /\ genOut[c] = None
             /\ BriefingEvents(c) = {}
             /\ LoopDone =>
                   /\ BriefingKey(c) \in DOMAIN gstate
                   /\ gstate[BriefingKey(c)] = <<>>
             /\ StageReturned => state[BriefingKey(c)] = <<>>
        ELSE LoopDone => task[c] # "none"

\* C8 witness: the stage has returned with one category's key absent, one
\* category's collection empty and one category briefed
C8_Witness ==
    /\ StageReturned
    /\ \E c \in Categories : CuratedKey(c) \notin DOMAIN gstate
    /\ \E c \in Categories :
          CuratedKey(c) \in DOMAIN gstate /\ gstate[CuratedKey(c)] = <<>>
    /\ \E c \in Categories : GenSucceeded(c) /\ task[c] = "done"

\* the accumulated state holds no report that is not empty, neither under
\* report nor under editor.report
Empty(v) == v = None \/ v = Str(<<>>)
NoReport(st) ==
    /\ Empty(Get(st, "report", None))
    /\ "editor" \in DOMAIN st => Empty(Get(st["editor"], "report", None))

\* the run ended without raising and process_research has ended
RunEndedQuietly == pc = "done" /\ gpc = "end"

\* str(e) of the exceptions a stage can raise
ExceptionTexts ==
    {<<"editor failed">>, <<"generation failed">>}
        \cup {SortRaises(cur.docs).exc :
                cur \in {x \in CuratedPool : ~SortRaises(x.docs).ok}}

\* C9: when the run finishes without raising and the accumulated state holds
\* no report that is not empty, process_research has sent exactly one failed
\* event and no completed event; the failed event's message says that no
\* report was generated, and its error is "No report found" or "Error: " and
\* the state's error, which is the message and the error of no hard failure.
C9_SoftFailure ==
    (RunEndedQuietly /\ NoReport(state)) =>
        /\ SentWith("completed") = {}
        /\ Cardinality(SentWith("failed")) = 1
        /\ \A i \in SentWith("failed") :
              /\ events[i].message =
                    <<"Research completed but no report was generated">>
              /\ events[i].result = None
              /\ events[i].error =
                    IF Empty(Get(state, "error", None))
                    THEN Str(<<"No report found">>)
                    ELSE Str(<<"Error: ">> \o state["error"].s)
              /\ \A x \in ExceptionTexts :
                    /\ events[i].error # Str(x)
                    /\ events[i].message # <<"Research failed: ">> \o x

\* C9 witness: a run that ended without a report and with an error text in
\* its state
C9_Witness ==
    /\ RunEndedQuietly
    /\ NoReport(state)
    /\ "error" \in DOMAIN state

\* C10: once a stage has raised, nothing more is merged into the accumulated
\* state (no output of a later stage, and after a raise in the briefing stage
\* no briefing of it), no completed event is ever sent, no failed event is
\* sent before the handler runs, and when process_research has ended exactly
\* one failed event has been sent, which carries the text of the exception.
C10_HardFailure ==
    gpc = "raised" =>
        /\ exc # <<>>
        /\ SentWith("completed") = {}
        /\ DOMAIN state \cap {"report", "editor", "error"} = {}
        /\ (\E c \in Categories : task[c] = "raised") =>
              /\ "briefings" \notin DOMAIN state
              /\ \A c \in Categories : BriefingKey(c) \notin DOMAIN state
        /\ pc = "except" => SentWith("failed") = {}
        /\ pc = "done" =>
              /\ Cardinality(SentWith("failed")) = 1
              /\ \A i \in SentWith("failed") :
                    events[i] = Event("failed", <<"Research failed: ">> \o exc,
                                      None, Str(exc))

\* C10 witness: the briefing stage raised, the failure was reported, and a
\* task the stage left running has since stored its briefing
C10_Witness ==
    /\ gpc = "raised"
    /\ pc = "done"
    /\ \E c \in Categories : task[c] = "raised"
    /\ \E c \in Categories : task[c] = "done" /\ GenSucceeded(c)

\* process_research takes a step of its own: it leaves the position it was at
\* (the steps out of "run" before the run has ended are the engine's)
IsProcessStep ==
    /\ pc' # pc
    /\ pc \in {"spawned", "sleep", "except"} \/ (pc = "run" /\ gpc = "end")

\* C11: every step process_research takes, in a run with mongodb None and in
\* a run with a persistence collaborator whose calls succeed, leaves the same
\* position, the same caught exception, the same job_status and the same
\* sequence of events: those of the step computed without the collaborator and
\* those of the step computed with it.  No step fails for the absence.
C11_SameWithoutPersistence ==
    [][IsProcessStep =>
          \A m \in BOOLEAN :
              /\ pc' = ProcessStep(m).pc
              /\ exc' = ProcessStep(m).exc
              /\ job_status' = ProcessStep(m).job_status
              /\ events' = ProcessStep(m).events]_vars

\* C11 witness: a run without persistence collaborator has ended completed,
\* with the job recorded in job_status and nothing stored
C11_Witness ==
    /\ ~mongodb
    /\ pc = "done"
    /\ SentWith("completed") # {}
    /\ JobId \in DOMAIN job_status
    /\ db = [job |-> None, report |-> None]

\* C12: the submission only spawns the task (it sends nothing and runs no
\* step of it), and every submitted job eventually has its process_research
\* ended with a terminal event of its own sent, whether the run succeeds, ends
\* without a report, or an exception is raised before it (create_job), during
\* it (a stage) or after it (persistence, delivery of the completed event).
C12_EventuallyTerminal ==
    /\ [][pc = "none" => (pc' = "spawned" /\ events' = events
                            /\ job_status' = job_status /\ db' = db)]_vars
    /\ (pc # "none") ~> (pc = "done" /\ SupervisorTerminal # {})

\* C12 witness: a job whose create_job raised has ended with its failed event
C12_Witness ==
    /\ pc = "done"
    /\ exc = <<"create_job failed">>
    /\ SupervisorTerminal # {}

\* the float of the score an item is sorted by, and its place in the input
KeyOf(x) == ScoreKey(x.doc).v
PlaceOf(x) == x.url[2]

\* C13: for a batch whose scores are numeric (or missing), the documents are
\* considered in an order that is a rearrangement of the input, descending by
\* float(overall_score), in which documents of equal score keep the relative
\* order they have in the input.
C13_DescendingStable ==
    \A c \in Categories :
        prompt[c] # None =>
            LET sorted == prompt[c].sorted_items
                items == Items(CuratedData(gstate, c))
            IN /\ Len(sorted) = Len(items)
               /\ \A i \in 1..Len(items) :
                     \E j \in 1..Len(sorted) : sorted[j] = items[i]
               /\ \A i, j \in 1..Len(sorted) :
                     i < j =>
                        /\ KeyOf(sorted[i]) >= KeyOf(sorted[j])
                        /\ KeyOf(sorted[i]) = KeyOf(sorted[j])
                              => PlaceOf(sorted[i]) < PlaceOf(sorted[j])

\* C13 witness: a batch of three documents was sorted in which the last one
\* has the highest score and the first two, different documents, tie
C13_Witness ==
    /\ prompt["financial"] # None
    /\ LET sorted == prompt["financial"].sorted_items
       IN /\ Len(sorted) = 3
          /\ PlaceOf(sorted[1]) = 2
          /\ PlaceOf(sorted[2]) = 0
          /\ PlaceOf(sorted[3]) = 1
          /\ KeyOf(sorted[2]) = KeyOf(sorted[3])
          /\ sorted[2].doc # sorted[3].doc

\* the variables of the running job: its task, its workflow state, its entry
\* in job_status and what is stored for it
jobVars ==
    <<pc, exc, job_status, db, state, gstate, gpc, task, sem, briefings,
      genOut, prompt>>

\* C14: a step in which an observer connects or disconnects changes nothing
\* of the running job (a disconnect changes nothing but the observer: it sends
\* no event either), and the terminal status process_research sends is the one
\* the engine's outcome decides, whatever the observers did: completed exactly
\* when the run ended with a report, failed otherwise, one terminal event.
C14_ObserversLeaveJob ==
    /\ [][(obs' # obs) =>
             /\ UNCHANGED jobVars
             /\ (\E o \in Observers : obs'[o].st = "gone" /\ obs[o].st = "in")
                    => events' = events]_vars
    /\ [](pc = "done" =>
             /\ Cardinality(SupervisorTerminal) = 1
             /\ \A i \in SupervisorTerminal :
                   events[i].status =
                      IF gpc = "end" /\ Truthy(ReportContent(state))
                      THEN "completed" ELSE "failed")

\* C14 witness: an observer left before another attached in the middle of the
\* run, and the job has completed
C14_Witness ==
    /\ pc = "done"
    /\ SentWith("completed") # {}
    /\ \E o1, o2 \in Observers :
          /\ obs[o1].st = "gone"
          /\ obs[o2].st = "in" /\ obs[o2].at = "mid"

\* the tasks of the second job inside its `async with briefing_semaphore`
PeerAdmitted == {c \in Categories : peer.task[c] \in {"started", "completing"}}

\* C15 (as claimed): with two jobs in their briefing stage at the same time,
\* the tasks admitted to the rate-limited section, over both jobs, are never
\* more than 2.
C15_Original ==
    Cardinality(Admitted) + Cardinality(PeerAdmitted) <= SemaphoreValue

\* C16: once the semaphore is made, the slots held (2 minus the free ones) are
\* as many as the tasks inside the section, in every state; and when every
\* task has ended, by returning or by an exception, no slot is held.
C16_SlotsReleased ==
    (\E c \in Categories : task[c] # "none") =>
        /\ SemaphoreValue - sem = Cardinality(Admitted)
        /\ (\A c \in Categories : task[c] \in {"none", "done", "raised"})
              => sem = SemaphoreValue

\* C16 witness: every task has ended, one of them by an exception and one
\* normally
C16_Witness ==
    /\ \A c \in Categories : task[c] \in {"none", "done", "raised"}
    /\ \E c \in Categories : task[c] = "raised"
    /\ \E c \in Categories : task[c] = "done"
    /\ sem = SemaphoreValue

\* every task that waits for the semaphore is eventually admitted
EveryWaiterAdmitted ==
    \A c \in Categories :
        (task[c] = "waiting") ~> (task[c] \in {"started", "completing",
                                                "done", "raised"})

\* C17 (as claimed): under fair scheduling every task that requests admission
\* is eventually admitted, and the briefing stage eventually returns.
C17_Original ==
    /\ EveryWaiterAdmitted
    /\ (gpc = "brief") ~> StageReturned

\* the events that name a category, and those of each kind
CategoryEvents(c) ==
    {i \in EventIndices :
        /\ "category" \in DOMAIN events[i].result
        /\ events[i].result.category = c}
Starts(c) == {i \in CategoryEvents(c) : events[i].status = "briefing_start"}
Completes(c) ==
    {i \in CategoryEvents(c) : events[i].status = "briefing_complete"}

\* C18: for every category, a briefing_start has been sent exactly when its
\* task has been admitted, and never twice; the generation call is made once,
\* and at the moment it is made the briefing_start is already in the log; a
\* briefing_complete has been sent exactly when the generation answered a
\* text that is not empty once stripped, never twice, and after the
\* briefing_start; no other event names the category, so an empty or failed
\* generation leaves the briefing_start as the category's only event.
C18_CategoryEvents ==
    /\ [](\A c \in Categories :
             /\ Cardinality(Starts(c)) =
                   IF task[c] \in {"none", "waiting"} THEN 0 ELSE 1
             /\ Cardinality(Completes(c)) = IF GenSucceeded(c) THEN 1 ELSE 0
             /\ \A i \in Starts(c) : \A j \in Completes(c) : i < j
             /\ CategoryEvents(c) = Starts(c) \cup Completes(c)
             /\ genOut[c] # None => Starts(c) # {})
    /\ [][\A c \in Categories :
             /\ genOut[c] # None => genOut'[c] = genOut[c]
             /\ genOut'[c] # genOut[c] =>
                   \E i \in EventIndices :
                       /\ events[i].status = "briefing_start"
                       /\ events[i].result.category = c]_vars

\* C18 witness: every task of a stage run has ended, after one generation
\* answered a text, one answered only whitespace and one raised
C18_Witness ==
    /\ \A c \in Categories : task[c] \in {"none", "done"}
    /\ \E c \in Categories : GenSucceeded(c)
    /\ \E c \in Categories : GenFailed(c)
    /\ \E c \in Categories :
          genOut[c] # None /\ ~genOut[c].raises /\ ~GenSucceeded(c)

\* C19 (as claimed): the briefing a task stores under its category's key is
\* the stripped text the generation answered, and it is "" only when the
\* generation answered nothing or raised, also when the delivery of a progress
\* event raises.
C19_Original ==
    \A c \in Categories :
        task[c] = "done" =>
            gstate[BriefingKey(c)] =
                IF GenSucceeded(c) THEN Strip(genOut[c].text) ELSE <<>>

\* C20: in the state create_briefings returns, each of the four briefing keys
\* is set, and the mapping under `briefings` has as keys exactly the categories
\* whose briefing is not empty, each with the text of its briefing key.
C20_ResultMerge ==
    StageReturned =>
        /\ \A c \in Categories : BriefingKey(c) \in DOMAIN state
        /\ "briefings" \in DOMAIN state
        /\ DOMAIN state["briefings"] =
              {c \in Categories : state[BriefingKey(c)] # <<>>}
        /\ \A c \in DOMAIN state["briefings"] :
              state["briefings"][c] = state[BriefingKey(c)]

\* C20 witness: the stage has returned with two briefings stored, the one of
\* the later category completed first, and with an empty briefing of a task
C20_Witness ==
    /\ StageReturned
    /\ \E i \in Completes("news") : \E j \in Completes("financial") : i < j
    /\ \E c \in Categories : task[c] = "done" /\ state[BriefingKey(c)] = <<>>

\* the sum of len(doc_entry) over the entries of a prompt
RECURSIVE TotalLength(_)
TotalLength(texts) ==
    IF texts = <<>> THEN 0 ELSE CharLen(Head(texts)) + TotalLength(Tail(texts))

\* the part of an entry after "Title: ", the title and "\n\nContent: "
ContentPart(entry, doc) ==
    SubSeq(entry, 2 + Len(Get(doc, "title", <<>>)) + 1, Len(entry))

\* C21: the entries of the prompt are those of a prefix of the documents in
\* sorted order, one per document and in that order; their total length is
\* under the budget; when a document is left out, the one that follows the
\* prefix would have reached the budget (so inclusion stopped there, whatever
\* comes after it); and the content of each entry is the document's content
\* (raw_content first) when that is at most max_doc_length long, else its
\* first max_doc_length characters followed by the truncation marker.
C21_PromptPrefix ==
    \A c \in Categories :
        prompt[c] # None =>
            LET sorted == prompt[c].sorted_items
                texts == prompt[c].doc_texts
            IN /\ Len(texts) <= Len(sorted)
               /\ TotalLength(texts) < BudgetLimit
               /\ Len(texts) < Len(sorted) =>
                     TotalLength(texts)
                         + CharLen(DocEntry(sorted[Len(texts) + 1].doc))
                       >= BudgetLimit
               /\ \A i \in 1..Len(texts) :
                     LET doc == sorted[i].doc
                         part == ContentPart(texts[i], doc)
                     IN /\ texts[i] = DocEntry(doc)
                        /\ CharLen(part) <= MaxDocLength + CharLen(TruncationMarker)
                        /\ part =
                             IF CharLen(ContentOf(doc)) <= MaxDocLength
                             THEN ContentOf(doc)
                             ELSE Take(ContentOf(doc), MaxDocLength)
                                      \o TruncationMarker

\* C21 witness: of three documents the first was included, the second would
\* have reached the budget, and the third, which would have fitted, was left
\* out with it
C21_Witness ==
    /\ prompt["financial"] # None
    /\ LET sorted == prompt["financial"].sorted_items
           texts == prompt["financial"].doc_texts
       IN /\ Len(sorted) = 3
          /\ Len(texts) = 1
          /\ TotalLength(texts) + CharLen(DocEntry(sorted[3].doc)) < BudgetLimit

\* the tasks inside the generation call
Generating == {c \in Categories : task[c] = "generating"}

\* a step a task is ready to take: an admitted task its generation call, a
\* waiting task with a free slot its admission, a task whose update was
\* delivered its completion
ReadyStep(d) ==
    \/ task[d] = "started" /\ ENABLED GenerateCall(d)
    \/ task[d] = "waiting" /\ sem > 0 /\ ENABLED (Unblocked /\ Admit(d))
    \/ task[d] = "completing" /\ ENABLED (Unblocked /\ Complete(d))

\* C22 (as claimed): the wait for the generation call is a suspension point:
\* while a task is inside its generation call, every other task that is ready
\* (admitted, or waiting with a slot free, or about to store its content) can
\* take its step.
C22_Original ==
    \A c, d \in Categories :
        (c # d /\ task[c] = "generating"
           /\ (task[d] \in {"started", "completing"}
                 \/ (task[d] = "waiting" /\ sem > 0)))
            => ReadyStep(d)

\* at most one task of the stage run is inside the generation call
AtMostOneGenerating == Cardinality(Generating) <= 1

\* the first of state['report'], state['editor']['report'] that is not empty
TopLevelReport(st) == Get(st, "report", None)
EditorReport(st) ==
    IF "editor" \in DOMAIN st /\ st["editor"] # None
    THEN Get(st["editor"], "report", None)
    ELSE None
Chosen(st) ==
    IF ~Empty(TopLevelReport(st)) THEN TopLevelReport(st)
    ELSE IF ~Empty(EditorReport(st)) THEN EditorReport(st)
    ELSE None

\* the completed events process_research has sent (websocket_endpoint sends
\* its own event, under another message, to an observer that connects)
Published ==
    {i \in SentWith("completed") :
        events[i].message = <<"Research completed successfully">>}

\* C23: process_research sends a completed event only in a run that ended
\* without raising; when such a run has ended, the job is completed (in the
\* job table and by the event process_research sent) exactly when
\* state['report'] or state['editor']['report'] is not empty, and the report
\* in that event, in the job table and in the store is then state['report']
\* when that is not empty and state['editor']['report'] otherwise.
C23_FirstNonEmpty ==
    /\ Published # {} => RunEndedQuietly
    /\ RunEndedQuietly =>
          /\ Published # {} <=> Chosen(state) # None
          /\ JobEntry(job_status, JobId).status = "completed"
                <=> Chosen(state) # None
          /\ \A i \in Published :
                events[i].result =
                    [report |-> Chosen(state), company |-> Str(Company)]
          /\ Chosen(state) # None =>
                /\ Cardinality(Published) = 1
                /\ job_status[JobId].report = Chosen(state)
                /\ mongodb => db.report = Chosen(state)

\* a run that left an empty top-level report and a report under editor has
\* ended, and the editor's report was published
C23_Witness ==
    /\ RunEndedQuietly
    /\ TopLevelReport(state) = Str(<<>>)
    /\ EditorReport(state) = Str(<<"R2">>)
    /\ \E i \in Published : events[i].result.report = Str(<<"R2">>)

\* C24: in every state, also of a run in which a persistence call or a
\* delivery raises: an entry of job_status with status completed holds a
\* report that is not empty, which is the report the job's run chose, and the
\* company of the request; every completed event process_research has sent is
\* for an entry with status completed and carries the entry's report and
\* company; no entry holds a report without status completed; and without
\* persistence GET /research/{id}/report answers with a report exactly for an
\* id whose entry has status completed, and the report is that entry's.
C24_JobStore ==
    /\ \A j \in DOMAIN job_status :
          /\ job_status[j].status = "completed" =>
                /\ ~Empty(job_status[j].report)
                /\ job_status[j].report = Chosen(state)
                /\ job_status[j].company = Str(Company)
          /\ job_status[j].report # None => job_status[j].status = "completed"
    /\ \A i \in Published :
          /\ events[i].job_id \in DOMAIN job_status
          /\ job_status[events[i].job_id].status = "completed"
          /\ events[i].result =
                [report |-> job_status[events[i].job_id].report,
                 company |-> job_status[events[i].job_id].company]
    /\ ~mongodb =>
          \A j \in LookupIds :
              IF j \in DOMAIN job_status /\ job_status[j].status = "completed"
              THEN get_research_report(job_status, j) =
                      [code |-> 200, body |-> [report |-> job_status[j].report]]
              ELSE get_research_report(job_status, j).code = 404

\* without persistence, a job has completed with the editor's report, the
\* completed event was sent, and the lookup answers with that report
C24_Witness ==
    /\ ~mongodb
    /\ Published # {}
    /\ JobId \in DOMAIN job_status
    /\ job_status[JobId].status = "completed"
    /\ get_research_report(job_status, JobId) =
          [code |-> 200, body |-> [report |-> Str(<<"R2">>)]]
    /\ get_research_report(job_status, "job-0").code = 404

====
